---- MODULE Spec2Model ----
EXTENDS Integers, Sequences, FiniteSets, TLC

(***************************************************************************)
(* Risk-aware longitudinal planner: Core (simulation loop), EgoVehicle     *)
(* (mode-switched planner) and the other agents (Vehicle, Pedestrian).     *)
(*                                                                         *)
(* Fixed-point units                                                       *)
(*   time          1e-4 s      (0.1 s = 1000)                              *)
(*   acceleration  1/8 m/s^2   (1 m/s^2 = 8)                               *)
(*   speed         1/80 m/s    (1 m/s = 80), so that u*dT is exact         *)
(*   position      1/1600 m    so that the mean speed times dT is exact    *)
(*   indicator     1/1000                                                  *)
(* Poses are written in the frame of the heading: yaw_rad = 0, motion      *)
(* along x_m, y_m constant.                                                *)
(***************************************************************************)

VARIABLES
    egoCar,        \* Core._egoCar: << >> (None) or <<EgoVehicle record>>
    env,           \* Core._env: the Environment and its agents
    timestamp_s,   \* Core.timestamp_s
    pc,            \* position inside Core.move: "idle", "env", "time"
    dTArg,         \* the dT argument of the Core.move call in progress
    ret,           \* the last Core.move call: "none", "running", "True", "False", "raised"
    nCalls,        \* number of Core.move calls made so far
    tick,          \* what the planning tick of the last successful move chose
    log,           \* the ticks of this run, and the run a restart() ended
    riskEval       \* a cost evaluation in progress, one horizon step at a time

vars == <<egoCar, env, timestamp_s, pc, dTArg, ret, nCalls, tick, log, riskEval>>

----------------------------------------------------------------------------
(* Parameters of _param.py, in the units above *)

dT == 1000
PREDICT_STEP == 2000
PREDICT_TIME == 30000
SIMULATION_TIME == 100000
A_MIN == -24
A_MAX == 16
A_MAX_BRAKE == -48
J_MAX == 8
J_MAX_BRAKE == 16
T_BRAKE == 5000

(* Literals of ego_car.py *)
ESCAPE_RATE == 1                  \* in the unit of eventRate
MIN_COL_BRAKE_VEHICLE == 800      \* per mille
MIN_COL_BRAKE_PEDESTRIAN == 800   \* per mille
V_DRIVEOFF_END == 400       \* vx > 5 in _move
MIN_COL_STOP == 500         \* minColValue > 0.5 in the stop branch

(* Bounds of the model *)
MaxCalls == 3        \* Core.move calls in a run
MaxObjects == 1      \* static objects and agents in the environment
WarmUpTicks == 67    \* ticks already driven when a warmed-up run begins
MaxLiveCalls == 4    \* Core.move calls of the driver loop in a braking run
RiskSteps == 4       \* horizon timestamps of one cost evaluation
MaxRiskObjects == 2  \* objects in the list of one cost evaluation
MaxStepCalls == 4    \* Core.move calls of a driver with a fixed dT
MaxCacheTicks == 2   \* ticks followed at the resolution of the minimizer
MaxEvals == 3        \* cost evaluations of one minimize_scalar call (maxiter 5)
MaxRunCalls == 3     \* Core.move calls in a run with restarts
StopWithin == 3      \* ticks left to the driver loop when Emergency is entered

----------------------------------------------------------------------------
(* Python helpers *)

Abs(n) == IF n < 0 THEN -n ELSE n
Max(a, b) == IF a >= b THEN a ELSE b
Min(a, b) == IF a <= b THEN a ELSE b

\* round(x / unit) * unit with ties to even, as Python's round()
RoundTo(x, unit) ==
    LET q == x \div unit
        r == x % unit
    IN  IF 2 * r < unit THEN q * unit
        ELSE IF 2 * r > unit THEN (q + 1) * unit
        ELSE IF q % 2 = 0 THEN q * unit ELSE (q + 1) * unit

Round2(t) == RoundTo(t, 100)     \* round(t, 2) on a time in 1e-4 s
Round3(t) == RoundTo(t, 10)      \* round(t, 3) on a time in 1e-4 s

\* round(u, 3) on an acceleration in 1/8 m/s^2, in 1/1000 m/s^2
RoundKey(u) == u * 125

(* dict with insertion order: a sequence of [k, v] *)
DictHas(d, k) == \E i \in 1..Len(d) : d[i].k = k
DictGet(d, k) == d[CHOOSE i \in 1..Len(d) : d[i].k = k].v
DictUpdate(d, k, v) ==
    IF DictHas(d, k)
    THEN [i \in 1..Len(d) |-> IF d[i].k = k THEN [k |-> k, v |-> v] ELSE d[i]]
    ELSE Append(d, [k |-> k, v |-> v])
DictKeys(d) == {d[i].k : i \in 1..Len(d)}

----------------------------------------------------------------------------
(* pose.py / pose_functions.py *)

Pose(x, y, yaw, vx, t) ==
    [x_m |-> x, y_m |-> y, yaw_rad |-> yaw, vx_ms |-> vx, timestamp_s |-> t]

\* updatePose: vx' = max(0, vx + u dT); position advanced by the mean speed
updatePose(lastPose, u_in, dt) ==
    LET vx2 == Max(0, lastPose.vx_ms + (u_in * dt) \div 1000)
    IN  Pose(lastPose.x_m + ((lastPose.vx_ms + vx2) * dt) \div 1000,
             lastPose.y_m, lastPose.yaw_rad, vx2,
             Round2(lastPose.timestamp_s + dt))

----------------------------------------------------------------------------
(* objects.py: Vehicle and Pedestrian *)

\* startTime = round(int(startTime/param._dT) * param._dT, 3)
snapStartTime(startTime) == Round3((startTime \div dT) * dT)

\* computeAccToStop: u = -vx^2 / (2 * distance)
\*   vx in 1/80 m/s, distance in 1/1600 m, u in 1/8 m/s^2
\*   with distance 0 the division is by zero: -inf with numpy floats
NEG_INF == -1000000
computeAccToStop(dist, vx_ms) ==
    IF dist = 0 THEN NEG_INF ELSE -((vx_ms * vx_ms) \div dist)

NO_STOP == 999990000         \* self._stopTimestamp_s = 99999

Vehicle(idx, from_x, dist, vx_ms, startTime, isStop) ==
    LET startPose == Pose(from_x, 0, 0, vx_ms, snapStartTime(startTime))
    IN  [kind |-> "vehicle", idx |-> idx, startTime |-> startTime,
         u |-> IF isStop THEN computeAccToStop(dist, vx_ms) ELSE 0,
         stopTimestamp_s |-> NO_STOP,
         currentPose |-> startPose,
         l_pose |-> <<[k |-> startPose.timestamp_s, v |-> startPose]>>,
         isDetected |-> FALSE]

\* stopTimestamp = startTime + s / vx   (s / vx in seconds)
Pedestrian(idx, from_x, dist, vx_ms, startTime, isStop) ==
    LET st == snapStartTime(startTime)
        startPose == Pose(from_x, 0, 0, vx_ms, st)
    IN  [kind |-> "pedestrian", idx |-> idx, startTime |-> startTime,
         u |-> 0,
         stopTimestamp_s |-> IF isStop THEN st + (dist * 500) \div vx_ms
                             ELSE NO_STOP,
         currentPose |-> startPose,
         l_pose |-> <<[k |-> startPose.timestamp_s, v |-> startPose]>>,
         isDetected |-> FALSE]

VehicleMove(a) ==
    LET lastPose == a.currentPose
        nextTimestamp_s == Round3(lastPose.timestamp_s + dT)
        nextPose == updatePose(lastPose, a.u, dT)
    IN  [a EXCEPT !.currentPose = nextPose,
                  !.l_pose = DictUpdate(@, nextTimestamp_s, nextPose),
                  !.isDetected = FALSE]

\* a pedestrian that still walks in the step that reaches the stop time
PedestrianMove_StopLate(a) ==
    LET lastPose == a.currentPose
        nextTimestamp_s == Round3(lastPose.timestamp_s + dT)
        nextPose == IF nextTimestamp_s <= a.stopTimestamp_s
                    THEN updatePose(lastPose, a.u, dT)
                    ELSE Pose(lastPose.x_m, lastPose.y_m, lastPose.yaw_rad,
                              0, nextTimestamp_s)
    IN  [a EXCEPT !.currentPose = nextPose,
                  !.l_pose = DictUpdate(@, nextTimestamp_s, nextPose),
                  !.isDetected = FALSE]

PedestrianMove(a) ==
    LET lastPose == a.currentPose
        nextTimestamp_s == Round3(lastPose.timestamp_s + dT)
        nextPose == IF nextTimestamp_s < a.stopTimestamp_s
                    THEN updatePose(lastPose, a.u, dT)
                    ELSE Pose(lastPose.x_m, lastPose.y_m, lastPose.yaw_rad,
                              0, nextTimestamp_s)
    IN  [a EXCEPT !.currentPose = nextPose,
                  !.l_pose = DictUpdate(@, nextTimestamp_s, nextPose),
                  !.isDetected = FALSE]

----------------------------------------------------------------------------
(* environment.py *)

Environment ==
    [l_staticObject |-> 0, l_vehicle |-> << >>, l_pedestrian |-> << >>,
     started |-> FALSE]

countObjects(e) == e.l_staticObject + Len(e.l_vehicle) + Len(e.l_pedestrian)

\* Environment.move: every agent that has started takes one step of dT
AgentStep(a, currentTime) ==
    IF a.currentPose.timestamp_s > currentTime THEN a
    ELSE IF a.kind = "vehicle" THEN VehicleMove(a) ELSE PedestrianMove(a)

\* agent restart(): truncate to the first pose
AgentRestart(a) ==
    [a EXCEPT !.currentPose = a.l_pose[1].v, !.l_pose = <<a.l_pose[1]>>]

\* Environment.restart: every agent is restarted
EnvRestart(e) ==
    [e EXCEPT
       !.l_vehicle = [i \in 1..Len(@) |-> AgentRestart(@[i])],
       !.l_pedestrian = [i \in 1..Len(@) |-> AgentRestart(@[i])]]

EnvMove(e, currentTime) ==
    [e EXCEPT
       !.l_vehicle = [i \in 1..Len(@) |-> AgentStep(@[i], currentTime)],
       !.l_pedestrian = [i \in 1..Len(@) |-> AgentStep(@[i], currentTime)]]

----------------------------------------------------------------------------
(* ego_car.py: EgoVehicle *)

\* an ego constructed at standstill starting in Stop
EgoVehicle_StartStopped(startPose, u_in) ==
    [p_u |-> {}, p_pose |-> << >>,
     currentPose |-> startPose, u |-> u_in,
     stopState |-> startPose.vx_ms = 0, driveOffState |-> FALSE,
     defaultState |-> startPose.vx_ms # 0, emergencyState |-> FALSE,
     minColValue |-> 0, TTB |-> 0, brake |-> FALSE,
     l_opt |-> << >>,
     l_u |-> <<[k |-> startPose.timestamp_s, v |-> u_in]>>,
     l_pose |-> <<[k |-> startPose.timestamp_s, v |-> startPose]>>]

EgoVehicle(startPose, u_in) ==
    [p_u |-> {}, p_pose |-> << >>,
     currentPose |-> startPose, u |-> u_in,
     stopState |-> FALSE, driveOffState |-> FALSE,
     defaultState |-> TRUE, emergencyState |-> FALSE,
     minColValue |-> 0, TTB |-> 0, brake |-> FALSE,
     l_opt |-> << >>,
     l_u |-> <<[k |-> startPose.timestamp_s, v |-> u_in]>>,
     l_pose |-> <<[k |-> startPose.timestamp_s, v |-> startPose]>>]

toStopState(e) ==
    [e EXCEPT !.stopState = TRUE, !.driveOffState = FALSE,
              !.defaultState = FALSE, !.emergencyState = FALSE]

toDriveOffState(e) ==
    [e EXCEPT !.stopState = FALSE, !.driveOffState = TRUE,
              !.defaultState = FALSE, !.emergencyState = FALSE]

toDefaultState(e) ==
    [e EXCEPT !.stopState = FALSE, !.driveOffState = FALSE,
              !.defaultState = TRUE, !.emergencyState = FALSE]

\* entering Emergency without clearing the Default flag
toEmergencyState_KeepDefault(e) ==
    [e EXCEPT !.stopState = FALSE, !.driveOffState = FALSE,
              !.emergencyState = TRUE]

toEmergencyState(e) ==
    [e EXCEPT !.stopState = FALSE, !.driveOffState = FALSE,
              !.defaultState = FALSE, !.emergencyState = TRUE]

\* _computeTTB: |vx / aBrake| + delay, in 1e-4 s
computeTTB(e) ==
    [e EXCEPT !.TTB = (e.currentPose.vx_ms * 1000) \div Abs(A_MAX_BRAKE) + T_BRAKE]

\* _move() entering Default above 5 m/s whatever the mode
moveEgo_DefaultAnyMode(e) ==
    LET lastPose == e.currentPose
        nextTimestamp_s == Round2(lastPose.timestamp_s + dT)
        uUsed == IF e.p_u # {} THEN CHOOSE x \in e.p_u : TRUE ELSE e.u
        nextPose == updatePose(lastPose, uUsed, dT)
        e1 == [e EXCEPT !.u = uUsed,
                        !.currentPose = nextPose,
                        !.l_pose = DictUpdate(@, nextTimestamp_s, nextPose),
                        !.l_u = DictUpdate(@, nextTimestamp_s, uUsed)]
        e2 == IF nextPose.vx_ms = 0
              THEN [toStopState(e1) EXCEPT !.u = 0]
              ELSE e1
    IN  IF nextPose.vx_ms > V_DRIVEOFF_END
        THEN toDefaultState(e2)
        ELSE e2

\* _move() that zeroes u at standstill but does not enter Stop
moveEgo_NoStop(e) ==
    LET lastPose == e.currentPose
        nextTimestamp_s == Round2(lastPose.timestamp_s + dT)
        uUsed == IF e.p_u # {} THEN CHOOSE x \in e.p_u : TRUE ELSE e.u
        nextPose == updatePose(lastPose, uUsed, dT)
        e1 == [e EXCEPT !.u = uUsed,
                        !.currentPose = nextPose,
                        !.l_pose = DictUpdate(@, nextTimestamp_s, nextPose),
                        !.l_u = DictUpdate(@, nextTimestamp_s, uUsed)]
        e2 == IF nextPose.vx_ms = 0 THEN [e1 EXCEPT !.u = 0] ELSE e1
    IN  IF nextPose.vx_ms > V_DRIVEOFF_END /\ e2.driveOffState
        THEN toDefaultState(e2)
        ELSE e2

\* _move() recording the input after the reset at standstill
moveEgo_RecordAfterReset(e) ==
    LET lastPose == e.currentPose
        nextTimestamp_s == Round2(lastPose.timestamp_s + dT)
        uUsed == IF e.p_u # {} THEN CHOOSE x \in e.p_u : TRUE ELSE e.u
        nextPose == updatePose(lastPose, uUsed, dT)
        uKept == IF nextPose.vx_ms = 0 THEN 0 ELSE uUsed
        e1 == [e EXCEPT !.u = uKept,
                        !.currentPose = nextPose,
                        !.l_pose = DictUpdate(@, nextTimestamp_s, nextPose),
                        !.l_u = DictUpdate(@, nextTimestamp_s, uKept)]
        e2 == IF nextPose.vx_ms = 0 THEN toStopState(e1) ELSE e1
    IN  IF nextPose.vx_ms > V_DRIVEOFF_END /\ e2.driveOffState
        THEN toDefaultState(e2)
        ELSE e2

\* _move(): one step of the default dT with the committed input
moveEgo(e) ==
    LET lastPose == e.currentPose
        nextTimestamp_s == Round2(lastPose.timestamp_s + dT)
        uUsed == IF e.p_u # {} THEN CHOOSE x \in e.p_u : TRUE ELSE e.u
        nextPose == updatePose(lastPose, uUsed, dT)
        e1 == [e EXCEPT !.u = uUsed,
                        !.currentPose = nextPose,
                        !.l_pose = DictUpdate(@, nextTimestamp_s, nextPose),
                        !.l_u = DictUpdate(@, nextTimestamp_s, uUsed)]
        e2 == IF nextPose.vx_ms = 0
              THEN [toStopState(e1) EXCEPT !.u = 0]
              ELSE e1
    IN  IF nextPose.vx_ms > V_DRIVEOFF_END /\ e2.driveOffState
        THEN toDefaultState(e2)
        ELSE e2

(* The bounded scalar minimizer (scipy, maxiter = 5) returns one of the points
   it evaluated, all strictly inside (lo, hi).  The candidates are the grid
   points whose distance to the current u is even, so that
   u + (val - u) * dT / PREDICT_STEP stays on the grid; an interval too narrow
   to hold one yields its closed grid points. *)
Candidates(lo, hi, u) ==
    LET open == {v \in (lo + 1)..(hi - 1) : (v - u) % 2 = 0}
    IN  IF open # {} THEN open ELSE {v \in lo..hi : (v - u) % 2 = 0}

SetMin(S) == CHOOSE x \in S : \A y \in S : x <= y
SetMax(S) == CHOOSE x \in S : \A y \in S : x >= y

(* What one evaluation of _computeTotalCost leaves in (brake, minColValue),
   by hazard profile of the snapshot *)
HazardProfiles == {"none", "mild", "caution", "brake"}

Outcome(profile) ==
    CASE profile = "none"    -> [brake |-> FALSE, minColValue |-> 0]
      [] profile = "mild"    -> [brake |-> FALSE, minColValue |-> 500]
      [] profile = "caution" -> [brake |-> FALSE, minColValue |-> 700]
      [] profile = "brake"   -> [brake |-> TRUE, minColValue |-> 1000]

\* with no static object and no agent every loop of _riskCost is empty
ProfilesOf(e) == IF countObjects(e) = 0 THEN {"none"} ELSE HazardProfiles

(* _riskCost at one horizon timestamp.  r holds what each loop reads there:
   for every static object and static vehicle whether its polygon intersects
   the inflated ego polygon, for every other agent its collision indicator in
   per mille, or ABSENT where the agent's _p_pose has no entry for the
   timestamp even after predict(): getPredictAt then raises KeyError. *)
ABSENT == -1
SeqRange(q) == {q[i] : i \in 1..Len(q)}
Raises(q) == ABSENT \in SeqRange(q)

\* the agents a loop has dealt with when it ends or is left by the KeyError
Before(q) ==
    IF Raises(q)
    THEN SubSeq(q, 1, (CHOOSE i \in 1..Len(q) :
                         q[i] = ABSENT /\ \A j \in 1..(i - 1) : q[j] # ABSENT) - 1)
    ELSE q
Indicators(q) == SeqRange(Before(q))

RECURSIVE SumOver(_, _)
SumOver(S, f) ==
    IF S = {} THEN 0
    ELSE LET x == CHOOSE y \in S : TRUE IN f[x] + SumOver(S \ {x}, f)

\* the event rates of risk_functions.py: COLLISION_RATE_MAX for an
\* intersection, non-decreasing in the indicator otherwise, hypothetical
\* agents at a lower maximum
eventRate(r) ==
    LET static == Cardinality({i \in 1..Len(r.staticObject) : r.staticObject[i]})
                    + Cardinality({i \in 1..Len(r.staticVehicle) : r.staticVehicle[i]})
        real == [i \in 0..1000 |-> i \div 500]
        hypo == [i \in 0..1000 |-> i \div 1000]
        rate(q, f) == SumOver(1..Len(q), [i \in 1..Len(q) |-> f[q[i]]])
    IN  2 * static + rate(r.vehicle, real) + rate(r.pedestrian, real)
          + rate(r.hypoPedestrian, hypo) + rate(r.hypoVehicle, hypo)

\* _riskCost with the hypothetical pedestrians treated as pedestrians
riskCost_HypoArms(e, t_s, u_in, r) ==
    LET armed == Round2(t_s) <= e.currentPose.timestamp_s + e.TTB
        hit == TRUE \in SeqRange(r.staticObject) \cup SeqRange(r.staticVehicle)
        vInd == Indicators(r.vehicle)
        pInd == IF Raises(r.vehicle) THEN {}
                ELSE Indicators(r.pedestrian) \cup
                       (IF Raises(r.pedestrian) THEN {}
                        ELSE Indicators(r.hypoPedestrian))
        raised == \/ Raises(r.vehicle) \/ Raises(r.pedestrian)
                  \/ Raises(r.hypoPedestrian) \/ Raises(r.hypoVehicle)
        minCol == SetMax({IF hit THEN 1000 ELSE e.minColValue} \cup vInd \cup pInd)
        brake == \/ e.brake
                 \/ /\ armed
                    /\ \/ hit
                       \/ \E i \in vInd : i > MIN_COL_BRAKE_VEHICLE
                       \/ \E i \in pInd : i > MIN_COL_BRAKE_PEDESTRIAN
    IN  [ego |-> [e EXCEPT !.brake = brake,
                           !.minColValue = minCol,
                           !.l_opt = IF raised THEN @
                                     ELSE DictUpdate(@, RoundKey(u_in),
                                                     <<brake, minCol>>)],
         raised |-> raised,
         eventRate |-> IF raised THEN 0 ELSE eventRate(r)]

\* _riskCost arming the brake flag at every horizon timestamp
riskCost_NoWindow(e, t_s, u_in, r) ==
    LET hit == TRUE \in SeqRange(r.staticObject) \cup SeqRange(r.staticVehicle)
        vInd == Indicators(r.vehicle)
        pInd == IF Raises(r.vehicle) THEN {} ELSE Indicators(r.pedestrian)
        raised == \/ Raises(r.vehicle) \/ Raises(r.pedestrian)
                  \/ Raises(r.hypoPedestrian) \/ Raises(r.hypoVehicle)
        minCol == SetMax({IF hit THEN 1000 ELSE e.minColValue} \cup vInd \cup pInd)
        brake == \/ e.brake
                 \/ hit
                 \/ \E i \in vInd : i > MIN_COL_BRAKE_VEHICLE
                 \/ \E i \in pInd : i > MIN_COL_BRAKE_PEDESTRIAN
    IN  [ego |-> [e EXCEPT !.brake = brake,
                           !.minColValue = minCol,
                           !.l_opt = IF raised THEN @
                                     ELSE DictUpdate(@, RoundKey(u_in),
                                                     <<brake, minCol>>)],
         raised |-> raised,
         eventRate |-> IF raised THEN 0 ELSE eventRate(r)]

(* The loops run in the order static objects, static vehicles, vehicles,
   pedestrians, hypothetical pedestrians, hypothetical vehicles; a KeyError
   leaves _riskCost at once, with brake and minColValue as the loops before
   it set them and nothing written to _p_eventRate or _l_opt. *)
riskCost(e, t_s, u_in, r) ==
    LET armed == Round2(t_s) <= e.currentPose.timestamp_s + e.TTB
        hit == TRUE \in SeqRange(r.staticObject) \cup SeqRange(r.staticVehicle)
        vInd == Indicators(r.vehicle)
        pInd == IF Raises(r.vehicle) THEN {} ELSE Indicators(r.pedestrian)
        raised == \/ Raises(r.vehicle) \/ Raises(r.pedestrian)
                  \/ Raises(r.hypoPedestrian) \/ Raises(r.hypoVehicle)
        minCol == SetMax({IF hit THEN 1000 ELSE e.minColValue} \cup vInd \cup pInd)
        brake == \/ e.brake
                 \/ /\ armed
                    /\ \/ hit
                       \/ \E i \in vInd : i > MIN_COL_BRAKE_VEHICLE
                       \/ \E i \in pInd : i > MIN_COL_BRAKE_PEDESTRIAN
    IN  [ego |-> [e EXCEPT !.brake = brake,
                           !.minColValue = minCol,
                           !.l_opt = IF raised THEN @
                                     ELSE DictUpdate(@, RoundKey(u_in),
                                                     <<brake, minCol>>)],
         raised |-> raised,
         eventRate |-> IF raised THEN 0 ELSE eventRate(r)]

\* _survivalRate taking only the event rate recorded at timestamp_s
survivalRate_StepOnly(p_eventRate, t_s) ==
    -(ESCAPE_RATE
        + SumOver({i \in 1..Len(p_eventRate) : p_eventRate[i].k = t_s},
                  [i \in 1..Len(p_eventRate) |-> p_eventRate[i].v]))

(* _survivalRate: s = exp(-total_eventRate * dT), total_eventRate the escape
   rate plus the rates recorded under the keys k <= timestamp_s.  exp is
   increasing, so two survival rates compare as their exponents do; the model
   keeps the exponent over dT. *)
survivalRate(p_eventRate, t_s) ==
    -(ESCAPE_RATE
        + SumOver({i \in 1..Len(p_eventRate) : p_eventRate[i].k <= t_s},
                  [i \in 1..Len(p_eventRate) |-> p_eventRate[i].v]))

\* _computeTotalCost up to its loop: reset, then _predict(u_in)
beginCost(e, u_in) ==
    [e EXCEPT !.brake = FALSE,
              !.minColValue = 0,
              !.p_u = {u_in},
              !.p_pose = <<e.currentPose.timestamp_s, u_in>>]

\* an evaluation that starts from the brake and minColValue it finds
computeTotalCost_KeepsBrake(e, u_in, profile) ==
    LET o == Outcome(profile)
        b == e.brake \/ o.brake
        c == Max(e.minColValue, o.minColValue)
    IN  [e EXCEPT !.brake = b,
                  !.minColValue = c,
                  !.p_u = {u_in},
                  !.p_pose = <<e.currentPose.timestamp_s, u_in>>,
                  !.l_opt = DictUpdate(@, RoundKey(u_in), <<b, c>>)]

\* _computeTotalCost(u_in): predict, accumulate, record in the cache
computeTotalCost(e, u_in, profile) ==
    LET o == Outcome(profile)
    IN  [e EXCEPT !.brake = o.brake,
                  !.minColValue = o.minColValue,
                  !.p_u = {u_in},
                  !.p_pose = <<e.currentPose.timestamp_s, u_in>>,
                  !.l_opt = DictUpdate(@, RoundKey(u_in),
                                       <<o.brake, o.minColValue>>)]

\* minimize_scalar over (lo, hi): the lowest candidate is evaluated, then the
\* highest; val is one of the two
minimize(e, lo, hi, profile, pickHigh) ==
    LET C == Candidates(lo, hi, e.u)
        first == SetMin(C)
        last == SetMax(C)
        e1 == computeTotalCost(e, first, profile)
        e2 == IF last = first THEN e1 ELSE computeTotalCost(e1, last, profile)
    IN  [ego |-> e2, val |-> IF pickHigh THEN last ELSE first]

\* committing the candidate itself, not the dT / predictStep part of the way
commit_Whole(u, val) == val

\* self._p_u = self._u + (val - self._u) * dT / predictStep
commit(u, val) == u + ((val - u) * dT) \div PREDICT_STEP

retrieve(e, val) ==
    LET pair == DictGet(e.l_opt, RoundKey(val))
    IN  [e EXCEPT !.brake = pair[1], !.minColValue = pair[2]]

\* the stop branch holding only when brake and minColValue > 0.5 both hold
stopBranch_And(e, profile, pickHigh) ==
    LET lo == 0
        hi == J_MAX
        m == minimize(e, lo, hi, profile, pickHigh)
        e1 == retrieve(m.ego, m.val)
        e2 == IF e1.brake /\ e1.minColValue > MIN_COL_STOP
              THEN [e1 EXCEPT !.p_u = {0}, !.u = 0]
              ELSE [toDriveOffState(e1) EXCEPT !.p_u = {commit(e1.u, m.val)}]
    IN  [ego |-> moveEgo(e2), ok |-> TRUE, lo |-> lo, hi |-> hi, val |-> m.val]

\* the stop branch zeroing u but leaving the candidate's p_u in place
stopBranch_KeepPu(e, profile, pickHigh) ==
    LET lo == 0
        hi == J_MAX
        m == minimize(e, lo, hi, profile, pickHigh)
        e1 == retrieve(m.ego, m.val)
        e2 == IF e1.brake \/ e1.minColValue > MIN_COL_STOP
              THEN [e1 EXCEPT !.u = 0]
              ELSE [toDriveOffState(e1) EXCEPT !.p_u = {commit(e1.u, m.val)}]
    IN  [ego |-> moveEgo(e2), ok |-> TRUE, lo |-> lo, hi |-> hi, val |-> m.val]

stopBranch(e, profile, pickHigh) ==
    LET lo == 0
        hi == J_MAX
        m == minimize(e, lo, hi, profile, pickHigh)
        e1 == retrieve(m.ego, m.val)
        e2 == IF e1.brake \/ e1.minColValue > MIN_COL_STOP
              THEN [e1 EXCEPT !.p_u = {0}, !.u = 0]
              ELSE [toDriveOffState(e1) EXCEPT !.p_u = {commit(e1.u, m.val)}]
    IN  [ego |-> moveEgo(e2), ok |-> TRUE, lo |-> lo, hi |-> hi, val |-> m.val]

\* the drive-off branch ignoring the brake flag
driveOffBranch_NoBrake(e, profile, pickHigh) ==
    LET lo0 == Max(e.u - J_MAX, A_MIN \div 2)
        hi0 == Min(e.u + J_MAX, A_MAX \div 2)
        lo == IF lo0 >= hi0 THEN A_MIN \div 2 ELSE lo0
        hi == IF lo0 >= hi0 THEN A_MIN \div 2 + J_MAX ELSE hi0
        m == minimize(e, lo, hi, profile, pickHigh)
        e1 == retrieve(m.ego, m.val)
        e3 == [e1 EXCEPT !.p_u = {commit(e1.u, m.val)}]
    IN  [ego |-> moveEgo(e3), ok |-> TRUE, lo |-> lo, hi |-> hi, val |-> m.val]

driveOffBranch(e, profile, pickHigh) ==
    LET lo0 == Max(e.u - J_MAX, A_MIN \div 2)
        hi0 == Min(e.u + J_MAX, A_MAX \div 2)
        lo == IF lo0 >= hi0 THEN A_MIN \div 2 ELSE lo0
        hi == IF lo0 >= hi0 THEN A_MIN \div 2 + J_MAX ELSE hi0
        m == minimize(e, lo, hi, profile, pickHigh)
        e1 == retrieve(m.ego, m.val)
        e2 == IF e1.brake THEN toEmergencyState(e1) ELSE e1
        e3 == [e2 EXCEPT !.p_u = {commit(e2.u, m.val)}]
    IN  [ego |-> moveEgo(e3), ok |-> TRUE, lo |-> lo, hi |-> hi, val |-> m.val]

defaultBranch(e, profile, pickHigh) ==
    LET lo0 == Max(e.u - J_MAX, A_MIN)
        hi0 == Min(e.u + J_MAX, A_MAX)
        lo == IF lo0 >= hi0 THEN A_MIN ELSE lo0
        hi == IF lo0 >= hi0 THEN A_MIN + J_MAX ELSE hi0
        m == minimize(e, lo, hi, profile, pickHigh)
        e1 == retrieve(m.ego, m.val)
        e2 == IF e1.brake THEN toEmergencyState(e1) ELSE e1
        e3 == [e2 EXCEPT !.p_u = {commit(e2.u, m.val)}]
    IN  [ego |-> moveEgo(e3), ok |-> TRUE, lo |-> lo, hi |-> hi, val |-> m.val]

\* the emergency branch falling back to (A_MAX_BRAKE, A_MAX)
emergencyBranch_UpToAMax(e, profile, pickHigh) ==
    LET lo == A_MAX_BRAKE
        hi == A_MAX
        m == minimize(e, lo, hi, profile, pickHigh)
        e1 == [m.ego EXCEPT !.p_u = {commit(m.ego.u, m.val)}]
    IN  [ego |-> moveEgo(e1), ok |-> TRUE, lo |-> lo, hi |-> hi, val |-> m.val]

\* a lower bound above the upper bound makes minimize_scalar raise ValueError
emergencyBranch(e, profile, pickHigh) ==
    LET lo0 == Max(e.u - J_MAX_BRAKE, A_MAX_BRAKE)
        hi0 == e.u - J_MAX_BRAKE
        lo == IF lo0 >= hi0 THEN A_MAX_BRAKE ELSE lo0
        hi == IF lo0 >= hi0 THEN e.u ELSE hi0
    IN  IF lo > hi
        THEN [ego |-> e, ok |-> FALSE, lo |-> lo, hi |-> hi, val |-> 0]
        ELSE LET m == minimize(e, lo, hi, profile, pickHigh)
                 e1 == [m.ego EXCEPT !.p_u = {commit(m.ego.u, m.val)}]
             IN  [ego |-> moveEgo(e1), ok |-> TRUE,
                  lo |-> lo, hi |-> hi, val |-> m.val]

\* optimizeState(): _computeTTB, clear the cache, dispatch on the mode flags
optimizeState(e, profile, pickHigh) ==
    LET e0 == [computeTTB(e) EXCEPT !.l_opt = << >>]
    IN  IF e0.stopState THEN stopBranch(e0, profile, pickHigh)
        ELSE IF e0.driveOffState THEN driveOffBranch(e0, profile, pickHigh)
        ELSE IF e0.defaultState THEN defaultBranch(e0, profile, pickHigh)
        ELSE IF e0.emergencyState THEN emergencyBranch(e0, profile, pickHigh)
        ELSE [ego |-> e0, ok |-> TRUE, lo |-> 0, hi |-> 0, val |-> 0]

\* EgoVehicle.restart(): back to the earliest pose and input, mode Default
EgoRestart(e) ==
    LET t == SetMin(DictKeys(e.l_pose))
        firstPose == DictGet(e.l_pose, t)
        firstU == DictGet(e.l_u, t)
    IN  toDefaultState([e EXCEPT !.l_pose = <<[k |-> t, v |-> firstPose]>>,
                                 !.u = firstU,
                                 !.l_u = <<[k |-> t, v |-> firstU]>>,
                                 !.currentPose = firstPose])

----------------------------------------------------------------------------
(* core.py: Core *)

\* inputs of the calls
EgoInputs ==                     \* <<vx_ms, u_in>>; 40 is above A_MAX
    {<<0, -8>>, <<0, 0>>, <<12, -8>>, <<480, 0>>, <<480, 16>>, <<480, 40>>}
EgoStartTimes == {0}
MoveSteps == {dT, 50 * dT}       \* the dT argument of Core.move
AgentStartTimes == {0}
VehicleGoals == {<<51200, FALSE>>}    \* <<distance to the goal, isStop>>

NoTick == [mode |-> "none", lo |-> 0, hi |-> 0, val |-> 0]

\* choices: the hazard profile and the end of the bracket the minimizer
\* returned, tick by tick, since the ego was added or restarted; saved: the
\* histories and the choices of the run that the last restart() ended
NoLog == [choices |-> << >>, saved |-> << >>]

\* no cost evaluation under way
NoObjects ==
    [staticObject |-> 0, staticVehicle |-> 0, vehicle |-> 0, pedestrian |-> 0,
     hypoPedestrian |-> 0, hypoVehicle |-> 0]
NothingSeen == [armed |-> FALSE, worst |-> 0]
NoEval ==
    [active |-> FALSE, k |-> 0, u_in |-> 0, l_currentObject |-> NoObjects,
     p_eventRate |-> << >>, s |-> 0, absent |-> FALSE, seen |-> NothingSeen,
     twin |-> << >>, twin_eventRate |-> << >>]

Init ==
    /\ egoCar = << >>
    /\ env = Environment
    /\ timestamp_s = 0
    /\ pc = "idle"
    /\ dTArg = 0
    /\ ret = "none"
    /\ nCalls = 0
    /\ tick = NoTick
    /\ log = NoLog
    /\ riskEval = NoEval

Ego == egoCar[1]

ModeOf(e) ==
    IF e.stopState THEN "stop"
    ELSE IF e.driveOffState THEN "driveOff"
    ELSE IF e.defaultState THEN "default"
    ELSE IF e.emergencyState THEN "emergency"
    ELSE "none"

(* A warmed-up run: the ego was added at standstill with u = -1 m/s^2 on an
   empty road and WarmUpTicks calls of Core.move(dT) succeeded, the minimizer
   returning the highest candidate each time; a static object may then have
   been added. *)
RECURSIVE WarmUp(_, _)
WarmUp(e, n) ==
    IF n = 0 THEN e
    ELSE CHOOSE r \in {optimizeState(p, "none", TRUE).ego :
                         p \in {WarmUp(e, n - 1)}} : TRUE

InitWarm ==
    /\ \E e0 \in {WarmUp(EgoVehicle(Pose(0, 0, 0, 0, 0), -8), WarmUpTicks - 1)} :
         \E r \in {optimizeState(e0, "none", TRUE)} :
            /\ egoCar = <<r.ego>>
            /\ tick = [mode |-> ModeOf(e0), lo |-> r.lo, hi |-> r.hi, val |-> r.val]
    /\ env \in {[Environment EXCEPT !.started = TRUE],
                 [Environment EXCEPT !.started = TRUE, !.l_staticObject = 1]}
    /\ timestamp_s = WarmUpTicks * dT
    /\ pc = "idle"
    /\ dTArg = dT
    /\ ret = "True"
    /\ nCalls = 0
    /\ log = NoLog
    /\ riskEval = NoEval

\* the calls that build the scenario come before the first Core.move
Setup == pc = "idle" /\ ret = "none"

AddEgoVehicleWith(inputs, startTimes) ==
    /\ Setup
    /\ \E in \in inputs, startTime \in startTimes :
         egoCar' = <<EgoVehicle(Pose(0, 0, 0, in[1], startTime), in[2])>>
    /\ UNCHANGED <<env, timestamp_s, pc, dTArg, ret, nCalls, tick, log, riskEval>>

AddEgoVehicle == AddEgoVehicleWith(EgoInputs, EgoStartTimes)

\* goals: <<distance from start to goal, isStop>>.  Vehicle.__init__ calls
\* computeAccToStop whenever isStop is set; a division by zero either raises
\* ZeroDivisionError out of addOtherVehicle or, with numpy floats, gives -inf
AddOtherVehicleWith(startTimes, goals) ==
    /\ Setup
    /\ countObjects(env) < MaxObjects
    /\ \E startTime \in startTimes, g \in goals :
         \E v \in {Vehicle(Len(env.l_vehicle) + 1, 32000, g[1], 640,
                          startTime, g[2])} :
            \/ /\ env' = [env EXCEPT !.l_vehicle = Append(@, v)]
               /\ ret' = ret
            \/ /\ v.u = NEG_INF
               /\ ret' = "ZeroDivisionError"
               /\ env' = env
    /\ UNCHANGED <<egoCar, timestamp_s, pc, dTArg, nCalls, tick, log, riskEval>>

AddOtherVehicle == AddOtherVehicleWith(AgentStartTimes, VehicleGoals)

AddPedestrianWith(startTimes) ==
    /\ Setup
    /\ countObjects(env) < MaxObjects
    /\ \E startTime \in startTimes, isStop \in BOOLEAN :
         env' = [env EXCEPT !.l_pedestrian =
                   Append(@, Pedestrian(Len(@) + 1, 32000, 480, 120,
                                        startTime, isStop))]
    /\ UNCHANGED <<egoCar, timestamp_s, pc, dTArg, ret, nCalls, tick, log, riskEval>>

AddPedestrian == AddPedestrianWith(AgentStartTimes)

AddStaticObject ==
    /\ Setup
    /\ countObjects(env) < MaxObjects
    /\ env' = [env EXCEPT !.l_staticObject = @ + 1]
    /\ UNCHANGED <<egoCar, timestamp_s, pc, dTArg, ret, nCalls, tick, log, riskEval>>

\* Core.move, condition true: self._egoCar.optimize()
\* (logged: whether the run keeps the log of its ticks)
MoveEgoWith(maxCalls, steps, logged) ==
    /\ pc = "idle"
    /\ nCalls < maxCalls
    /\ \E d \in steps :
         /\ egoCar # << >>
         /\ timestamp_s + d <= SIMULATION_TIME
         /\ dTArg' = d
         /\ \E profile \in ProfilesOf(env), pickHigh \in BOOLEAN :
              LET r == optimizeState(Ego, profile, pickHigh)
              IN  /\ egoCar' = <<r.ego>>
                  /\ tick' = [mode |-> ModeOf(Ego), lo |-> r.lo,
                              hi |-> r.hi, val |-> r.val]
                  /\ log' = IF logged
                             THEN [log EXCEPT !.choices =
                                     Append(@, <<profile, pickHigh>>)]
                             ELSE log
                  /\ pc' = IF r.ok THEN "env" ELSE "idle"
                  /\ ret' = IF r.ok THEN "running" ELSE "raised"
    /\ env' = [env EXCEPT !.started = TRUE]
    /\ nCalls' = nCalls + 1
    /\ UNCHANGED <<timestamp_s, riskEval>>

MoveEgo == MoveEgoWith(MaxCalls, MoveSteps, FALSE)

\* the environment step with the clock advanced first
MoveEnv_ClockFirst ==
    /\ pc = "env"
    /\ timestamp_s' = Round3(timestamp_s + dTArg)
    /\ env' = EnvMove(env, timestamp_s')
    /\ pc' = "time"
    /\ UNCHANGED <<egoCar, dTArg, ret, nCalls, tick, log, riskEval>>

\* Core.move: self._env.move(currentTime=self.timestamp_s)
MoveEnv ==
    /\ pc = "env"
    /\ env' = EnvMove(env, timestamp_s)
    /\ pc' = "time"
    /\ UNCHANGED <<egoCar, timestamp_s, dTArg, ret, nCalls, tick, log, riskEval>>

\* Core.move: self.timestamp_s = round(self.timestamp_s + dT, 3); return True
MoveTime ==
    /\ pc = "time"
    /\ timestamp_s' = Round3(timestamp_s + dTArg)
    /\ pc' = "idle"
    /\ ret' = "True"
    /\ UNCHANGED <<egoCar, env, dTArg, nCalls, tick, log, riskEval>>

\* the refused call advancing the environment before it returns
MoveFail_EnvMoves ==
    /\ pc = "idle"
    /\ nCalls < MaxCalls
    /\ \E d \in MoveSteps :
         /\ ~(egoCar # << >> /\ timestamp_s + d <= SIMULATION_TIME)
         /\ dTArg' = d
    /\ env' = EnvMove(env, timestamp_s)
    /\ ret' = "False"
    /\ nCalls' = nCalls + 1
    /\ UNCHANGED <<egoCar, timestamp_s, pc, tick, log, riskEval>>

\* Core.move, condition false: return False
MoveFailWith(maxCalls, steps) ==
    /\ pc = "idle"
    /\ nCalls < maxCalls
    /\ \E d \in steps :
         /\ ~(egoCar # << >> /\ timestamp_s + d <= SIMULATION_TIME)
         /\ dTArg' = d
    /\ ret' = "False"
    /\ nCalls' = nCalls + 1
    /\ UNCHANGED <<egoCar, env, timestamp_s, pc, tick, log, riskEval>>

MoveFail == MoveFailWith(MaxCalls, MoveSteps)

\* Core.reset
Reset ==
    /\ pc = "idle"
    /\ ret # "none"
    /\ egoCar' = << >>
    /\ env' = Environment
    /\ timestamp_s' = 0
    /\ ret' = "none"
    /\ log' = NoLog
    /\ UNCHANGED <<pc, dTArg, nCalls, tick, riskEval>>

\* Core.restart
Restart ==
    /\ pc = "idle"
    /\ ret # "none"
    /\ egoCar # << >>
    /\ timestamp_s' = 0
    /\ egoCar' = <<EgoRestart(Ego)>>
    /\ env' = EnvRestart(env)
    /\ log' = [choices |-> << >>,
               saved |-> <<[l_pose |-> Ego.l_pose, l_u |-> Ego.l_u,
                            choices |-> log.choices]>>]
    /\ UNCHANGED <<pc, dTArg, ret, nCalls, tick, riskEval>>

Next ==
    \/ AddEgoVehicle
    \/ AddOtherVehicle
    \/ AddPedestrian
    \/ AddStaticObject
    \/ MoveEgo
    \/ MoveEnv
    \/ MoveTime
    \/ MoveFail
    \/ Reset

Spec == Init /\ [][Next]_vars

SpecWarm == InitWarm /\ [][Next]_vars

(* A braking run: the ego creeps towards a static object and the driver loop
   calls Core.move(dT) until it has made MaxLiveCalls calls.  The loop is never
   suspended between two calls, nor inside one. *)
LiveInputs == {<<2, -2>>, <<12, -8>>}            \* <<vx_ms, u_in>>

InitLive ==
    /\ \E in \in LiveInputs :
         egoCar = <<EgoVehicle(Pose(0, 0, 0, in[1], 0), in[2])>>
    /\ env = [Environment EXCEPT !.l_staticObject = 1]
    /\ timestamp_s = 0
    /\ pc = "idle"
    /\ dTArg = 0
    /\ ret = "none"
    /\ nCalls = 0
    /\ tick = NoTick
    /\ log = NoLog
    /\ riskEval = NoEval

MoveEgoLive == MoveEgoWith(MaxLiveCalls, {dT}, FALSE)

NextLive ==
    \/ MoveEgoLive
    \/ MoveEnv
    \/ MoveTime

\* the driver loop begins its next call (MoveEgoLive, seen from the loop)
DriverCall ==
    /\ pc = "idle"
    /\ nCalls < MaxLiveCalls
    /\ nCalls' = nCalls + 1
    /\ pc' \in {"env", "idle"}

SpecLive ==
    /\ InitLive
    /\ [][NextLive]_vars
    /\ WF_<<pc, nCalls>>(DriverCall)
    /\ WF_vars(MoveEnv)
    /\ WF_vars(MoveTime)

(* Runs with restarts: start times on and off the dT grid, Core.move(dT)
   only, and Core.restart() after any finished call. *)
RunEgoInputs == {<<480, 0>>, <<12, -8>>}          \* <<vx_ms, u_in>>
RunEgoStartTimes == {0, 40, 500}                 \* 0 s, 0.004 s, 0.05 s
RunAgentStartTimes == {0, 1540}                  \* 0 s, 0.154 s
RunVehicleGoals == {<<51200, FALSE>>, <<51200, TRUE>>, <<0, TRUE>>}

AddEgoVehicleRun == AddEgoVehicleWith(RunEgoInputs, RunEgoStartTimes)
AddOtherVehicleRun == AddOtherVehicleWith(RunAgentStartTimes, RunVehicleGoals)
AddPedestrianRun == AddPedestrianWith(RunAgentStartTimes)
MoveEgoRun == MoveEgoWith(MaxRunCalls, {dT}, TRUE)

NextRun ==
    \/ AddEgoVehicleRun
    \/ AddOtherVehicleRun
    \/ AddPedestrianRun
    \/ AddStaticObject
    \/ MoveEgoRun
    \/ MoveEnv
    \/ MoveTime
    \/ Restart

SpecRun == Init /\ [][NextRun]_vars

(* A driver that calls Core.move with one and the same dT throughout: a step
   of the grid, a long one, and one below half a millisecond. *)
StepSizes == {4, dT, 50 * dT}
StepEgoInputs == {<<480, 0>>, <<12, -8>>}        \* <<vx_ms, u_in>>
SameStep == IF nCalls = 0 THEN StepSizes ELSE {dTArg}

AddEgoVehicleStep == AddEgoVehicleWith(StepEgoInputs, EgoStartTimes)
MoveEgoStep == MoveEgoWith(MaxStepCalls, SameStep, FALSE)
MoveFailStep == MoveFailWith(MaxStepCalls, SameStep)

NextStep ==
    \/ AddEgoVehicleStep
    \/ AddStaticObject
    \/ MoveEgoStep
    \/ MoveEnv
    \/ MoveTime
    \/ MoveFailStep

SpecStep == Init /\ [][NextStep]_vars

(* Egos constructed with an input inside and outside of the acceleration
   range: EgoVehicle.__init__ stores u_in as it is given; -104 is below
   A_MAX_BRAKE, 40 above A_MAX. *)
RangeEgoInputs == {<<480, 0>>, <<480, 40>>, <<480, -104>>}   \* <<vx_ms, u_in>>

AddEgoVehicleRange == AddEgoVehicleWith(RangeEgoInputs, EgoStartTimes)

NextRange ==
    \/ AddEgoVehicleRange
    \/ AddOtherVehicle
    \/ AddPedestrian
    \/ AddStaticObject
    \/ MoveEgo
    \/ MoveEnv
    \/ MoveTime
    \/ MoveFail
    \/ Reset

SpecRange == Init /\ [][NextRange]_vars

(* The cache of one tick at the resolution of the minimizer.  The candidates
   of minimize_scalar are floats, here in 1e-4 m/s^2; the cache key is
   round(u_in, 3).  The tick is taken in its steps: optimizeState clears the
   cache, the minimizer evaluates up to MaxEvals distinct candidates, then its
   result is looked up, the mode is set and _move runs. *)
FineUnit == 1250                         \* 1/8 m/s^2 in 1e-4 m/s^2
FineKey(x) == RoundTo(x, 10) \div 10     \* round(u_in, 3), in 1/1000 m/s^2
ToGrid(x) == RoundTo(x, FineUnit) \div FineUnit
CachePoints == {-3000, 4994, 4996, 5004, 5006}
FineCandidates(lo, hi) ==
    {x \in CachePoints : lo * FineUnit < x /\ x < hi * FineUnit}
Evaluated == {log.choices[i][1] : i \in 1..Len(log.choices)}

\* _computeTotalCost(u_in) for a candidate of the minimizer
computeTotalCostFine(e, x, profile) ==
    LET o == Outcome(profile)
    IN  [e EXCEPT !.brake = o.brake,
                  !.minColValue = o.minColValue,
                  !.p_u = {x},
                  !.p_pose = <<e.currentPose.timestamp_s, x>>,
                  !.l_opt = DictUpdate(@, FineKey(x),
                                       <<o.brake, o.minColValue>>)]

InitCache ==
    /\ egoCar = <<EgoVehicle(Pose(0, 0, 0, 480, 0), 0)>>
    /\ env = [Environment EXCEPT !.l_staticObject = 1, !.started = TRUE]
    /\ timestamp_s = 0
    /\ pc = "idle"
    /\ dTArg = 0
    /\ ret = "none"
    /\ nCalls = 0
    /\ tick = NoTick
    /\ log = NoLog
    /\ riskEval = NoEval

\* optimizeState in Default, up to the call of minimize_scalar
BeginMinimize ==
    /\ pc = "idle"
    /\ nCalls < MaxCacheTicks
    /\ Ego.defaultState
    /\ LET lo0 == Max(Ego.u - J_MAX, A_MIN)
           hi0 == Min(Ego.u + J_MAX, A_MAX)
           lo == IF lo0 >= hi0 THEN A_MIN ELSE lo0
           hi == IF lo0 >= hi0 THEN A_MIN + J_MAX ELSE hi0
       IN  tick' = [mode |-> "default", lo |-> lo, hi |-> hi, val |-> 0]
    /\ egoCar' = <<[computeTTB(Ego) EXCEPT !.l_opt = << >>]>>
    /\ log' = [log EXCEPT !.choices = << >>]
    /\ pc' = "minimize"
    /\ nCalls' = nCalls + 1
    /\ UNCHANGED <<env, timestamp_s, dTArg, ret, riskEval>>

\* the minimizer calls the cost at a point it has not tried yet
EvaluateCandidate ==
    /\ pc = "minimize"
    /\ Len(log.choices) < MaxEvals
    /\ \E x \in FineCandidates(tick.lo, tick.hi) \ Evaluated,
          profile \in ProfilesOf(env) :
         /\ egoCar' = <<computeTotalCostFine(Ego, x, profile)>>
         /\ log' = [log EXCEPT !.choices = Append(@, <<x, profile>>)]
    /\ UNCHANGED <<env, timestamp_s, pc, dTArg, ret, nCalls, tick, riskEval>>

\* minimize_scalar returns one of the points it tried; the rest of the
\* Default branch: look the pair up, set the mode, commit p_u, _move
ReturnMinimum ==
    /\ pc = "minimize"
    /\ \E val \in Evaluated :
         LET pair == DictGet(Ego.l_opt, FineKey(val))
             e1 == [Ego EXCEPT !.brake = pair[1], !.minColValue = pair[2]]
             e2 == IF e1.brake THEN toEmergencyState(e1) ELSE e1
             p_u == e2.u * FineUnit
                      + ((val - e2.u * FineUnit) * dT) \div PREDICT_STEP
             e3 == [e2 EXCEPT !.p_u = {ToGrid(p_u)}]
         IN  /\ egoCar' = <<moveEgo(e3)>>
             /\ tick' = [tick EXCEPT !.val = val]
    /\ pc' = "idle"
    /\ ret' = "running"
    /\ UNCHANGED <<env, timestamp_s, dTArg, nCalls, log, riskEval>>

NextCache ==
    \/ BeginMinimize
    \/ EvaluateCandidate
    \/ ReturnMinimum

SpecCache == InitCache /\ [][NextCache]_vars

(* Cost evaluations of one tick, horizon timestamp by horizon timestamp.  The
   object list of the tick is fixed; beside the ego the evaluation is carried
   out on a twin that sees the same list without its hypothetical agents. *)
ObjectLists ==
    {l \in [staticObject : 0..1, staticVehicle : 0..1, vehicle : 0..1,
            pedestrian : 0..1, hypoPedestrian : 0..1, hypoVehicle : 0..1] :
        l.staticObject + l.staticVehicle + l.vehicle + l.pedestrian
          + l.hypoPedestrian + l.hypoVehicle <= MaxRiskObjects}
RiskEgoSpeeds == {0, 48}                         \* 0 m/s, 0.6 m/s
RiskCandidates == {-2, 2}

Readings(l) ==
    [staticObject : [1..l.staticObject -> BOOLEAN],
     staticVehicle : [1..l.staticVehicle -> BOOLEAN],
     vehicle : [1..l.vehicle -> {ABSENT, 700, 1000}],
     pedestrian : [1..l.pedestrian -> {0, 1000}],
     hypoPedestrian : [1..l.hypoPedestrian -> {0, 1000}],
     hypoVehicle : [1..l.hypoVehicle -> {ABSENT, 1000}]]

NoHypo(r) == [r EXCEPT !.hypoPedestrian = << >>, !.hypoVehicle = << >>]

\* what the readings of one timestamp show of the real objects: whether one
\* of them is enough to brake for, and the largest indicator among them
Hits(r) == TRUE \in SeqRange(r.staticObject) \cup SeqRange(r.staticVehicle)
ArmsBrake(r) ==
    \/ Hits(r)
    \/ \E i \in SeqRange(r.vehicle) : i > MIN_COL_BRAKE_VEHICLE
    \/ \E i \in SeqRange(r.pedestrian) : i > MIN_COL_BRAKE_PEDESTRIAN
WorstOf(r) ==
    SetMax({0} \cup (IF Hits(r) THEN {1000} ELSE {})
               \cup SeqRange(r.vehicle) \cup SeqRange(r.pedestrian))

InitRisk ==
    /\ \E vx \in RiskEgoSpeeds :
         egoCar = <<computeTTB(EgoVehicle(Pose(0, 0, 0, vx, 0), 0))>>
    /\ env = [Environment EXCEPT !.started = TRUE]
    /\ timestamp_s = 0
    /\ pc = "idle"
    /\ dTArg = 0
    /\ ret = "none"
    /\ nCalls = 0
    /\ tick = NoTick
    /\ log = NoLog
    /\ \E l \in ObjectLists : riskEval = [NoEval EXCEPT !.l_currentObject = l]

\* the minimizer evaluates a candidate: _computeTotalCost(u_in) begins
BeginCost ==
    /\ ret # "raised"
    /\ ~riskEval.active \/ riskEval.k = RiskSteps
    /\ \E u_in \in RiskCandidates :
         /\ egoCar' = <<beginCost(Ego, u_in)>>
         /\ riskEval' = [riskEval EXCEPT
                            !.active = TRUE, !.k = 0, !.u_in = u_in,
                            !.p_eventRate = << >>, !.s = 0,
                            !.seen = NothingSeen,
                            !.twin = <<beginCost(IF riskEval.active
                                                 THEN riskEval.twin[1] ELSE Ego,
                                                 u_in)>>,
                            !.twin_eventRate = << >>]
    /\ UNCHANGED <<env, timestamp_s, pc, dTArg, ret, nCalls, tick, log>>

\* the loop of _computeTotalCost: _riskCost at the next horizon timestamp,
\* then _survivalRate at it; a KeyError ends the evaluation and the tick
RiskCostStep ==
    /\ riskEval.active
    /\ riskEval.k < RiskSteps
    /\ \E r \in Readings(riskEval.l_currentObject) :
         LET t == Ego.currentPose.timestamp_s + riskEval.k * PREDICT_STEP
             own == riskCost(Ego, t, riskEval.u_in, r)
             other == riskCost(riskEval.twin[1], t, riskEval.u_in, NoHypo(r))
             rates == DictUpdate(riskEval.p_eventRate, Round2(t), own.eventRate)
             now == Ego.currentPose.timestamp_s
         IN  /\ egoCar' = <<own.ego>>
             /\ ret' = IF own.raised THEN "raised" ELSE ret
             /\ riskEval' =
                  IF own.raised
                  THEN [riskEval EXCEPT !.active = FALSE, !.absent = TRUE]
                  ELSE [riskEval EXCEPT
                          !.k = @ + 1,
                          !.p_eventRate = rates,
                          !.s = survivalRate(rates, t),
                          !.seen = [armed |-> \/ @.armed
                                              \/ /\ t <= now + Ego.TTB
                                                 /\ ArmsBrake(r),
                                    worst |-> Max(@.worst, WorstOf(r))],
                          !.twin = <<other.ego>>,
                          !.twin_eventRate = <<t, other.eventRate>>]
    /\ UNCHANGED <<env, timestamp_s, pc, dTArg, nCalls, tick, log>>

NextRisk ==
    \/ BeginCost
    \/ RiskCostStep

SpecRisk == InitRisk /\ [][NextRisk]_vars

----------------------------------------------------------------------------
(* Steps of a run, as seen from outside *)

CallStep == nCalls' = nCalls + 1                 \* a Core.move call begins
TickStep == CallStep /\ pc' = "env"              \* ... and runs a planning tick
MoveGuard(d) == egoCar # << >> /\ timestamp_s + d <= SIMULATION_TIME
Started(a) == a.currentPose.timestamp_s <= timestamp_s
Agents(e) == {e.l_vehicle[i] : i \in 1..Len(e.l_vehicle)}
                 \cup {e.l_pedestrian[i] : i \in 1..Len(e.l_pedestrian)}
AgentsOf(e) == <<e.l_staticObject, e.l_vehicle, e.l_pedestrian>>

----------------------------------------------------------------------------
C2_FalseChangesNothing ==
    [][ (CallStep /\ ret' = "False") =>
            /\ timestamp_s' = timestamp_s
            /\ egoCar' = egoCar
            /\ env' = env
            /\ pc' = pc
      ]_vars

C2_Witness ==
    /\ ret = "False"
    /\ egoCar # << >> /\ Len(Ego.l_pose) = 3
    /\ timestamp_s = SIMULATION_TIME
    /\ \E a \in Agents(env) : Len(a.l_pose) = 3

----------------------------------------------------------------------------
(* The mode machine *)

NFlags(e) ==
    (IF e.stopState THEN 1 ELSE 0) + (IF e.driveOffState THEN 1 ELSE 0)
      + (IF e.defaultState THEN 1 ELSE 0) + (IF e.emergencyState THEN 1 ELSE 0)

EgoNext == egoCar'[1]
VxAfter == EgoNext.currentPose.vx_ms

\* C3: in every reachable state exactly one of the four mode flags is true,
\* and an ego that has just been constructed (one pose in its history), also
\* one constructed at speed 0, is in Default.
C3_OneMode ==
    egoCar # << >> =>
        /\ NFlags(Ego) = 1
        /\ Len(Ego.l_pose) = 1 => Ego.defaultState

C3_Witness ==
    /\ egoCar # << >>
    /\ Len(Ego.l_pose) = 1 /\ Ego.currentPose.vx_ms = 0 /\ Ego.defaultState

\* C4: a planning tick that starts in Emergency ends in Stop if the speed
\* after its _move is exactly 0 and in Emergency otherwise; it never ends in
\* Default or DriveOff.
C4_LeaveEmergency ==
    [][ (TickStep /\ Ego.emergencyState) =>
            IF VxAfter = 0
            THEN ModeOf(EgoNext) = "stop"
            ELSE ModeOf(EgoNext) = "emergency"
      ]_vars

C4_Witness ==
    /\ egoCar # << >> /\ tick.mode = "emergency"
    /\ Ego.stopState /\ Ego.currentPose.vx_ms = 0

\* C5: a tick that starts in Stop ends in Stop or DriveOff, and it ends in
\* DriveOff only if the chosen candidate's brake flag is false and its
\* minColValue is <= 0.5.
C5_LeaveStop ==
    [][ (TickStep /\ Ego.stopState) =>
            /\ ModeOf(EgoNext) \in {"stop", "driveOff"}
            /\ ModeOf(EgoNext) = "driveOff" =>
                 (~EgoNext.brake /\ EgoNext.minColValue <= MIN_COL_STOP)
      ]_vars

C5_Witness ==
    /\ egoCar # << >> /\ tick.mode = "stop"
    /\ Ego.driveOffState /\ Ego.minColValue = MIN_COL_STOP

\* C7: in a tick that starts in Default or DriveOff, if the brake flag
\* retrieved for the chosen candidate is true the tick ends in Emergency (in
\* Stop if the speed reached 0 in its _move); if it is false the tick does not
\* end in Emergency.
C7_BrakeToEmergency ==
    [][ (TickStep /\ (Ego.defaultState \/ Ego.driveOffState)) =>
            IF EgoNext.brake
            THEN ModeOf(EgoNext) = (IF VxAfter = 0 THEN "stop" ELSE "emergency")
            ELSE ModeOf(EgoNext) # "emergency"
      ]_vars

C7_Witness ==
    /\ egoCar # << >> /\ tick.mode = "driveOff"
    /\ Ego.brake /\ Ego.emergencyState /\ Ego.currentPose.vx_ms > 0

\* C8: the speed is >= 0 in every recorded pose of the ego, and an ego in
\* Stop at the end of a tick has speed exactly 0.
C8_SpeedNonNegative ==
    egoCar # << >> =>
        /\ \A i \in 1..Len(Ego.l_pose) : Ego.l_pose[i].v.vx_ms >= 0
        /\ Ego.currentPose.vx_ms >= 0
        /\ Ego.stopState => Ego.currentPose.vx_ms = 0

C8_Witness ==
    /\ egoCar # << >> /\ tick.mode = "stop" /\ Ego.stopState
    /\ Ego.brake /\ Len(Ego.l_pose) = 4

\* C6: a tick changes the mode to Default only when it started in DriveOff,
\* the brake flag of the chosen candidate was false and the speed after _move
\* is > 5 m/s; a tick starting in Stop or Emergency never enters Default and
\* a Default tick whose candidate has brake set does not end in Default.
C6_EnterDefault ==
    [][ TickStep =>
            /\ (~Ego.defaultState /\ EgoNext.defaultState) =>
                 /\ Ego.driveOffState
                 /\ ~EgoNext.brake
                 /\ VxAfter > V_DRIVEOFF_END
            /\ (Ego.defaultState /\ EgoNext.brake) => ~EgoNext.defaultState
      ]_vars

C6_Witness ==
    /\ egoCar # << >> /\ tick.mode = "driveOff" /\ Ego.defaultState
    /\ Ego.currentPose.vx_ms > V_DRIVEOFF_END
    /\ env.l_staticObject = 1

----------------------------------------------------------------------------
(* Scenarios *)

Committed(e) == CHOOSE x \in e.p_u : TRUE
NoHazard == countObjects(env) = 0
DefaultLo(u) == Max(u - J_MAX, A_MIN)
DefaultHi(u) == Min(u + J_MAX, A_MAX)

\* C9 as stated: an ego that starts at vx = 0 with no hazards is searched on
\* the Stop interval [0, J_MAX] in its first tick, picks u > 0 and is in
\* DriveOff after that tick.
C9_Original ==
    (/\ egoCar # << >> /\ Len(Ego.l_pose) = 2
     /\ Ego.l_pose[1].v.vx_ms = 0 /\ NoHazard) =>
        /\ tick.mode = "stop" /\ tick.lo = 0 /\ tick.hi = J_MAX
        /\ Ego.l_u[2].v > 0
        /\ Ego.driveOffState

\* C9 amended: an ego that starts at vx = 0 starts in Default and its first
\* tick is searched on the Default interval; a tick that starts in Stop with
\* no hazards is searched on [0, J_MAX], picks u > 0 and ends in DriveOff;
\* and a DriveOff tick with no hazards ends in Default exactly when the speed
\* after it exceeds 5 m/s.
C9_StandingStart ==
    [][ TickStep =>
            /\ Len(Ego.l_pose) = 1 =>
                 /\ tick'.mode = "default"
                 /\ DefaultLo(Ego.u) < DefaultHi(Ego.u) =>
                      (tick'.lo = DefaultLo(Ego.u) /\ tick'.hi = DefaultHi(Ego.u))
            /\ (Ego.stopState /\ NoHazard) =>
                 /\ tick'.lo = 0 /\ tick'.hi = J_MAX
                 /\ tick'.val > 0 /\ Committed(EgoNext) > 0
                 /\ ModeOf(EgoNext) = "driveOff"
            /\ (Ego.driveOffState /\ NoHazard) =>
                 (ModeOf(EgoNext) = "default" <=> VxAfter > V_DRIVEOFF_END)
      ]_vars

C9_Witness ==
    /\ egoCar # << >> /\ NoHazard
    /\ Len(Ego.l_pose) = 3 /\ Ego.l_pose[1].v.vx_ms = 0
    /\ tick.mode = "stop" /\ Ego.driveOffState /\ Ego.u > 0

\* C10 as stated: at a Default tick whose chosen candidate has the brake flag
\* set the mode moves to Emergency, and the acceleration committed by the
\* tick that follows is <= 0.
C10_Original ==
    [][ TickStep =>
            /\ (Ego.defaultState /\ EgoNext.brake) => EgoNext.emergencyState
            /\ (tick.mode = "default" /\ Ego.brake /\ Ego.emergencyState) =>
                 Committed(EgoNext) <= 0
      ]_vars

\* C10 amended: at a Default tick whose chosen candidate has the brake flag
\* set the mode moves to Emergency, or to Stop when the speed reaches 0 in
\* that tick's _move; every Emergency tick that follows commits an
\* acceleration no greater than the current one (it need not be <= 0).
C10_BrakeInDefault ==
    [][ TickStep =>
            /\ (Ego.defaultState /\ EgoNext.brake) =>
                 ModeOf(EgoNext) = (IF VxAfter = 0 THEN "stop" ELSE "emergency")
            /\ Ego.emergencyState => Committed(EgoNext) <= Ego.u
      ]_vars

C10_Witness ==
    /\ egoCar # << >> /\ tick.mode = "emergency" /\ Ego.emergencyState
    /\ Len(Ego.l_pose) = 3 /\ Ego.l_u[2].v > 0 /\ Ego.l_u[3].v > 0
    /\ Ego.l_u[3].v < Ego.l_u[2].v

----------------------------------------------------------------------------
(* Braking to a halt *)

EmergencyMoving ==
    egoCar # << >> /\ Ego.emergencyState /\ Ego.currentPose.vx_ms > 0
Stopped ==
    egoCar # << >> /\ Ego.stopState /\ Ego.currentPose.vx_ms = 0

\* C11: once the ego is in Emergency with positive speed and the driver loop
\* still has StopWithin ticks to execute, the ego eventually reaches speed 0
\* and mode Stop; it does not stay in Emergency with positive speed.
C11_EmergencyStops ==
    (EmergencyMoving /\ nCalls + StopWithin <= MaxLiveCalls) ~> Stopped

C11_Witness ==
    /\ Stopped /\ tick.mode = "emergency"
    /\ Len(Ego.l_pose) = 5
    /\ Ego.l_u[2].v > 0

----------------------------------------------------------------------------
(* The histories *)

Newest(d) == d[Len(d)]

\* C14: in every tick the input recorded in the history is the p_u committed
\* in that tick, under the key of the new pose, and the new pose is the
\* previous pose advanced with it; this includes the tick in which the ego
\* reaches speed 0, where the current u is reset to 0 after the recording.
C14_RecordedIsCommitted ==
    [][ TickStep =>
            /\ Newest(EgoNext.l_u).v = Committed(EgoNext)
            /\ Newest(EgoNext.l_u).k = Newest(EgoNext.l_pose).k
            /\ Newest(EgoNext.l_pose).v =
                 updatePose(Ego.currentPose, Committed(EgoNext), dT)
            /\ EgoNext.u = (IF VxAfter = 0 THEN 0 ELSE Committed(EgoNext))
      ]_vars

C14_Witness ==
    /\ egoCar # << >> /\ pc = "env" /\ Len(Ego.l_pose) >= 2
    /\ Ego.l_pose[Len(Ego.l_pose) - 1].v.vx_ms > 0
    /\ Ego.currentPose.vx_ms = 0
    /\ Ego.u = 0
    /\ Newest(Ego.l_u).v < 0
    /\ Newest(Ego.l_u).v = Committed(Ego)

Pedestrians == {env.l_pedestrian[i] : i \in 1..Len(env.l_pedestrian)}
SamePlace(p, q) ==
    p.x_m = q.x_m /\ p.y_m = q.y_m /\ p.yaw_rad = q.yaw_rad

\* C19: a pedestrian moves with u = 0, keeping its speed, in every step whose
\* new timestamp is below its stop timestamp; in the first step whose new
\* timestamp reaches the stop timestamp and in every later one its x, y and
\* yaw stay what they were and its speed is 0, while the timestamp still
\* advances by dT.
C19_PedestrianFreezes ==
    \A a \in Pedestrians :
        /\ a.u = 0
        /\ a.currentPose = Newest(a.l_pose).v
        /\ \A j \in 2..Len(a.l_pose) :
             LET prev == a.l_pose[j - 1].v
                 cur == a.l_pose[j].v
             IN  /\ a.l_pose[j].k = prev.timestamp_s + dT
                 /\ cur.timestamp_s = prev.timestamp_s + dT
                 /\ IF a.l_pose[j].k < a.stopTimestamp_s
                    THEN /\ cur.vx_ms = prev.vx_ms
                         /\ cur.x_m = prev.x_m + (2 * prev.vx_ms * dT) \div 1000
                         /\ cur.y_m = prev.y_m /\ cur.yaw_rad = prev.yaw_rad
                    ELSE /\ cur.vx_ms = 0
                         /\ SamePlace(cur, prev)

C19_Witness ==
    \E a \in Pedestrians :
        /\ a.stopTimestamp_s = 2 * dT
        /\ Len(a.l_pose) = 4
        /\ a.l_pose[2].v.vx_ms > 0 /\ a.l_pose[2].v.x_m > a.l_pose[1].v.x_m
        /\ a.l_pose[3].k = a.stopTimestamp_s /\ a.l_pose[3].v.vx_ms = 0
        /\ SamePlace(a.l_pose[3].v, a.l_pose[2].v)
        /\ SamePlace(a.l_pose[4].v, a.l_pose[2].v)
        /\ a.l_pose[4].v.timestamp_s = 3 * dT

\* the ticks of this run, all of them part of a successful Core.move call
NTicks == Len(log.choices)
FromZero == egoCar # << >> /\ Ego.l_pose[1].k = 0
NeverRaised == ret # "raised"

\* C13: in a run that starts at time 0 and calls Core.move with step dT, after
\* n successful calls the simulation time, the newest key of the ego's pose
\* history and the timestamp of the ego's current pose are all round(n*dT, 2).
C13_TimeAfterNMoves ==
    /\ NeverRaised
    /\ (FromZero /\ pc = "idle") =>
          /\ timestamp_s = Round2(NTicks * dT)
          /\ Newest(Ego.l_pose).k = Round2(NTicks * dT)
          /\ Newest(Ego.l_u).k = Round2(NTicks * dT)
          /\ Ego.currentPose.timestamp_s = Round2(NTicks * dT)

C13_Witness ==
    /\ FromZero /\ pc = "idle" /\ ret = "True"
    /\ NTicks = 3 /\ nCalls = 3
    /\ timestamp_s = 3 * dT
    /\ Newest(Ego.l_pose).k = 3 * dT

OnGrid(keys) == \A k \in keys : k % dT = 0
EgoKeys == IF egoCar = << >> THEN {}
           ELSE DictKeys(Ego.l_pose) \cup DictKeys(Ego.l_u)
AgentKeys == UNION {DictKeys(a.l_pose) : a \in Agents(env)}

\* C20 as stated: every start time supplied from outside, the ego's as well
\* as a vehicle's or a pedestrian's, is snapped to the dT grid when the object
\* is added, so that every key of every history is a multiple of dT.
C20_Original == OnGrid(EgoKeys) /\ OnGrid(AgentKeys)

\* d2 is d with exactly one entry added at the end, under key k
AddsOne(d, d2, k) ==
    /\ Len(d2) = Len(d) + 1
    /\ \A i \in 1..Len(d) : d2[i] = d[i]
    /\ d2[Len(d2)].k = k
Increasing(d) == \A i \in 1..(Len(d) - 1) : d[i].k < d[i + 1].k

\* C12 as stated: each planning tick adds exactly one entry to the ego's pose
\* history and one to its input history, keyed by the previous current
\* timestamp + dT; the earlier entries keep key and value and the keys are
\* strictly increasing in insertion order.
C12_Original ==
    [][ TickStep =>
            /\ AddsOne(Ego.l_pose, EgoNext.l_pose,
                       Ego.currentPose.timestamp_s + dT)
            /\ AddsOne(Ego.l_u, EgoNext.l_u,
                       Ego.currentPose.timestamp_s + dT)
            /\ Increasing(EgoNext.l_pose)
            /\ Increasing(EgoNext.l_u)
      ]_vars

----------------------------------------------------------------------------
(* restart() *)

\* the histories are cut to their first entry, which becomes current
RestartRestores ==
    /\ EgoNext.l_pose = <<Ego.l_pose[1]>>
    /\ EgoNext.l_u = <<Ego.l_u[1]>>
    /\ EgoNext.currentPose = Ego.l_pose[1].v
    /\ EgoNext.u = Ego.l_u[1].v
    /\ ModeOf(EgoNext) = "default" /\ NFlags(EgoNext) = 1

\* C17 as stated: restart() truncates the ego's pose and input histories to
\* their earliest entry, makes that pose the current pose, restores u to the
\* first recorded input, sets the mode to Default and clears the predictions
\* (predicted poses and predicted input).
C17_Original ==
    [][ Restart =>
            /\ RestartRestores
            /\ EgoNext.p_pose = << >>
            /\ EgoNext.p_u = {}
      ]_vars

Restarted == egoCar # << >> /\ log.saved # << >>
Earlier == log.saved[1]
\* the ticks since the restart had the outcomes of the earlier run's first ticks
SameTicks ==
    /\ NTicks <= Len(Earlier.choices)
    /\ \A i \in 1..NTicks : log.choices[i] = Earlier.choices[i]
\* the ego with nothing left over from earlier ticks
Fresh(e) ==
    [e EXCEPT !.p_u = {}, !.p_pose = << >>, !.brake = FALSE,
              !.minColValue = 0, !.TTB = 0, !.l_opt = << >>]

\* C18: after restart(), ticks that meet the same hazards and the same
\* minimizer outcomes as the earlier run reproduce its history entry for
\* entry, and what the earlier run left in p_u, the predictions, brake,
\* minColValue, TTB and the candidate cache changes nothing of what the next
\* tick does.
C18_ReplayReproduces ==
    Restarted =>
        /\ SameTicks =>
              /\ Len(Ego.l_pose) = NTicks + 1
              /\ \A j \in 1..Len(Ego.l_pose) :
                    /\ Ego.l_pose[j] = Earlier.l_pose[j]
                    /\ Ego.l_u[j] = Earlier.l_u[j]
        /\ pc = "idle" =>
              \A profile \in ProfilesOf(env), pickHigh \in BOOLEAN :
                  optimizeState(Ego, profile, pickHigh)
                      = optimizeState(Fresh(Ego), profile, pickHigh)

C18_Witness ==
    /\ Restarted /\ pc = "idle" /\ SameTicks
    /\ Len(Earlier.l_pose) = 3 /\ Earlier.choices[2][1] = "brake"
    /\ Earlier.l_u[2].v # Earlier.l_u[1].v
    /\ NTicks = 1
    /\ Ego.l_pose = <<Earlier.l_pose[1], Earlier.l_pose[2]>>
    /\ Ego.brake # Fresh(Ego).brake

----------------------------------------------------------------------------
(* Hypothetical agents *)

Recorded(e, u_in) ==
    IF DictHas(e.l_opt, RoundKey(u_in)) THEN DictGet(e.l_opt, RoundKey(u_in))
    ELSE << >>

\* C15: while a candidate is evaluated, and for every candidate evaluated
\* before it in the tick, brake, minColValue and the pair recorded in the
\* cache are what they are for the same object list without its hypothetical
\* pedestrians and hypothetical vehicles.
C15_HypotheticalsNeverArm ==
    riskEval.active =>
        /\ Ego.brake = riskEval.twin[1].brake
        /\ Ego.minColValue = riskEval.twin[1].minColValue
        /\ \A u_in \in RiskCandidates :
              Recorded(Ego, u_in) = Recorded(riskEval.twin[1], u_in)

C15_Witness ==
    /\ riskEval.active /\ riskEval.k = RiskSteps
    /\ riskEval.l_currentObject.hypoPedestrian = 1
    /\ riskEval.l_currentObject.hypoVehicle = 1
    /\ \A i \in 1..RiskSteps : riskEval.p_eventRate[i].v = 2
    /\ riskEval.twin_eventRate[2] = 0
    /\ ~Ego.brake /\ Ego.minColValue = 0
    /\ Recorded(Ego, riskEval.u_in) = <<FALSE, 0>>
    /\ \E u_in \in RiskCandidates \ {riskEval.u_in} :
          Recorded(Ego, u_in) = <<FALSE, 0>>

\* C30: a tick that starts in Stop and whose chosen candidate has brake set
\* or minColValue > 0.5 leaves the ego where it is: the mode stays Stop, the
\* committed and the recorded input are 0, and the new pose has the same x, y
\* and yaw and vx = 0, only its timestamp advancing by one step dT.
C30_StopHolds ==
    [][ (/\ TickStep /\ Ego.stopState
         /\ (EgoNext.brake \/ EgoNext.minColValue > MIN_COL_STOP)) =>
            /\ ModeOf(EgoNext) = "stop"
            /\ Committed(EgoNext) = 0
            /\ EgoNext.u = 0
            /\ Newest(EgoNext.l_u).v = 0
            /\ SamePlace(EgoNext.currentPose, Ego.currentPose)
            /\ VxAfter = 0
            /\ EgoNext.currentPose.timestamp_s =
                 Round2(Ego.currentPose.timestamp_s + dT)
            /\ Newest(EgoNext.l_pose).v = EgoNext.currentPose
      ]_vars

C30_Witness ==
    /\ egoCar # << >> /\ tick.mode = "stop" /\ pc = "env"
    /\ Ego.stopState /\ ~Ego.brake /\ Ego.minColValue > MIN_COL_STOP
    /\ Len(Ego.l_pose) >= 3
    /\ SamePlace(Ego.l_pose[Len(Ego.l_pose) - 1].v, Ego.currentPose)
    /\ Newest(Ego.l_u).v = 0

PlanStep == CallStep /\ ret' \in {"running", "raised"}   \* optimize() ran

\* the interval each mode computes first, and the one it falls back to
FirstBounds(mode, u) ==
    CASE mode = "stop"      -> <<0, J_MAX>>
      [] mode = "driveOff"  -> <<Max(u - J_MAX, A_MIN \div 2),
                                 Min(u + J_MAX, A_MAX \div 2)>>
      [] mode = "default"   -> <<Max(u - J_MAX, A_MIN), Min(u + J_MAX, A_MAX)>>
      [] mode = "emergency" -> <<Max(u - J_MAX_BRAKE, A_MAX_BRAKE),
                                 u - J_MAX_BRAKE>>

FallbackBounds(mode, u) ==
    CASE mode = "driveOff"  -> <<A_MIN \div 2, A_MIN \div 2 + J_MAX>>
      [] mode = "default"   -> <<A_MIN, A_MIN + J_MAX>>
      [] mode = "emergency" -> <<A_MAX_BRAKE, u>>

\* C25: the interval handed to the minimizer is fixed by the mode at the start
\* of the tick: Stop [0, J_MAX]; DriveOff [max(u - J_MAX, 0.5 A_MIN),
\* min(u + J_MAX, 0.5 A_MAX)]; Default [max(u - J_MAX, A_MIN),
\* min(u + J_MAX, A_MAX)]; Emergency [max(u - J_MAX_BRAKE, A_MAX_BRAKE),
\* u - J_MAX_BRAKE]; and exactly when lo >= hi it is replaced by the fallback
\* (0.5 A_MIN, 0.5 A_MIN + J_MAX), (A_MIN, A_MIN + J_MAX) or (A_MAX_BRAKE, u).
C25_SearchInterval ==
    [][ PlanStep =>
          LET mode == ModeOf(Ego)
              first == FirstBounds(mode, Ego.u)
          IN  /\ tick'.mode = mode
              /\ <<tick'.lo, tick'.hi>> =
                   IF mode # "stop" /\ first[1] >= first[2]
                   THEN FallbackBounds(mode, Ego.u)
                   ELSE first
      ]_vars

C25_Witness ==
    /\ egoCar # << >> /\ pc = "env"
    /\ Ego.l_u[1].v > A_MAX + J_MAX /\ Len(Ego.l_pose) = 2
    /\ tick.mode = "default" /\ tick.lo = A_MIN /\ tick.hi = A_MIN + J_MAX

InRange(e) == e.l_u[1].v \in A_MIN..A_MAX        \* the constructor's input

\* C26: for an ego constructed with u in [A_MIN, A_MAX], in every tick that
\* starts in Default or DriveOff the committed input differs from the
\* previous input by at most J_MAX dT / PREDICT_STEP, and after every tick
\* the committed input lies in [A_MAX_BRAKE, A_MAX].
C26_JerkAndRange ==
    [][ (TickStep /\ InRange(Ego)) =>
            /\ (Ego.defaultState \/ Ego.driveOffState) =>
                 /\ PREDICT_STEP * (Committed(EgoNext) - Ego.u) <= J_MAX * dT
                 /\ PREDICT_STEP * (Ego.u - Committed(EgoNext)) <= J_MAX * dT
            /\ Committed(EgoNext) \in A_MAX_BRAKE..A_MAX
      ]_vars

C26_Witness ==
    /\ egoCar # << >> /\ pc = "env" /\ InRange(Ego)
    /\ tick.mode = "default" /\ Len(Ego.l_pose) = 2
    /\ Ego.l_u[1].v = A_MAX
    /\ PREDICT_STEP * (Ego.l_u[1].v - Committed(Ego)) >= (J_MAX - 2) * dT

----------------------------------------------------------------------------
(* One cost evaluation *)

EvalBegins == riskEval'.active /\ riskEval'.k = 0
EvalStep == riskEval.active /\ riskEval'.active /\ riskEval'.k = riskEval.k + 1

\* C24: an evaluation starts from brake = false and minColValue = 0; after
\* each of its steps brake is true iff at some step so far with timestamp
\* <= now + TTB a static object or static vehicle intersected, a vehicle's
\* indicator was above MIN_COL_BRAKE_VEHICLE or a pedestrian's above
\* MIN_COL_BRAKE_PEDESTRIAN, and minColValue is the largest indicator of all
\* steps so far (1 with a static intersection); neither ever decreases
\* within the evaluation.
C24_BrakeAndMinCol ==
    [][ /\ EvalBegins => (~EgoNext.brake /\ EgoNext.minColValue = 0)
        /\ EvalStep =>
             /\ EgoNext.brake = riskEval'.seen.armed
             /\ EgoNext.minColValue = riskEval'.seen.worst
             /\ Ego.brake => EgoNext.brake
             /\ EgoNext.minColValue >= Ego.minColValue
      ]_vars

C24_Witness ==
    /\ riskEval.active /\ riskEval.k = RiskSteps
    /\ riskEval.l_currentObject.pedestrian = 1
    /\ riskEval.l_currentObject.vehicle = 1
    /\ ~Ego.brake /\ Ego.minColValue = 1000
    /\ \E u_in \in RiskCandidates \ {riskEval.u_in} :
          Recorded(Ego, u_in) = <<TRUE, 1000>>

RateSum(d) == SumOver(1..Len(d), [i \in 1..Len(d) |-> d[i].v])

\* C29: within one evaluation the survival weight never increases from one
\* horizon step to the next; it is computed from the event rates recorded
\* for the steps up to the current one of the current candidate only, the
\* rates of earlier candidates being discarded, and every recorded event
\* rate is >= 0.
C29_SurvivalNonIncreasing ==
    [][ EvalStep =>
          /\ riskEval.k >= 1 => riskEval'.s <= riskEval.s
          /\ Len(riskEval'.p_eventRate) = riskEval'.k
          /\ \A i \in 1..Len(riskEval'.p_eventRate) :
                /\ riskEval'.p_eventRate[i].v >= 0
                /\ riskEval'.p_eventRate[i].k =
                     Ego.currentPose.timestamp_s + (i - 1) * PREDICT_STEP
          /\ riskEval'.s = -(ESCAPE_RATE + RateSum(riskEval'.p_eventRate))
      ]_vars

C29_Witness ==
    /\ riskEval.active /\ riskEval.k = RiskSteps
    /\ \E u_in \in RiskCandidates \ {riskEval.u_in} :
          Recorded(Ego, u_in) = <<TRUE, 1000>>
    /\ riskEval.p_eventRate[1].v > 0
    /\ riskEval.p_eventRate[RiskSteps].v = 0
    /\ riskEval.s = -(ESCAPE_RATE + riskEval.p_eventRate[1].v)

\* C28: when an agent has no predicted pose at a horizon timestamp, also
\* after its lazy predict(), the planner skips the agent for that step and
\* the evaluation goes on; no error escapes the tick.
C28_Original ==
    riskEval.absent => (riskEval.active /\ ret # "raised")

----------------------------------------------------------------------------
(* Stopping vehicles *)

Vehicles == {env.l_vehicle[i] : i \in 1..Len(env.l_vehicle)}

\* C21: the callers of computeAccToStop enforce distance > 0: adding a
\* stopping vehicle whose start and goal coincide never reaches the division,
\* so no ZeroDivisionError leaves addOtherVehicle and no vehicle gets an
\* infinite deceleration.
C21_Original ==
    /\ ret # "ZeroDivisionError"
    /\ \A v \in Vehicles : v.u # NEG_INF

----------------------------------------------------------------------------
(* A driver with a fixed step *)

Returned(r) == pc' = "idle" /\ ret' = r /\ (pc # "idle" \/ CallStep)

\* C22: with a fixed dT > 0 the calls of Core.move come to return False, and
\* from then on every call with that dT returns False, and currentTime never
\* exceeds SIMULATION_TIME.  The calls with a fixed dT come to return False
\* exactly if every call that returns True has moved currentTime forward, so
\* that currentTime + dT passes SIMULATION_TIME after finitely many of them.
C22_Original ==
    [][ /\ Returned("True") => timestamp_s' > timestamp_s
        /\ (CallStep /\ ret = "False" /\ dTArg' = dTArg) => ret' = "False"
        /\ timestamp_s' <= SIMULATION_TIME
      ]_vars

----------------------------------------------------------------------------
(* The cache of a tick *)

PairOf(profile) == <<Outcome(profile).brake, Outcome(profile).minColValue>>

\* C23: the (brake, minColValue) pair that drives the mode transition is the
\* pair produced by evaluating the cost at the chosen acceleration during
\* this same tick: the cache is empty when the tick starts, and no evaluation
\* of a different candidate, of an earlier tick or of this one, supplies the
\* pair that is retrieved.
C23_Original ==
    [][ /\ (pc = "idle" /\ pc' = "minimize") => EgoNext.l_opt = << >>
        /\ (pc = "minimize" /\ pc' = "idle") =>
             \E i \in 1..Len(log.choices) :
                /\ log.choices[i][1] = tick'.val
                /\ PairOf(log.choices[i][2]) =
                     <<EgoNext.brake, EgoNext.minColValue>>
      ]_vars

----------------------------------------------------------------------------
(* The two clocks *)

\* C31: after every Core.move that returns True the ego's current timestamp
\* equals Core's current time, whatever dT was passed to move and whatever
\* start time the ego was added with.
C31_Original ==
    (ret = "True" /\ pc = "idle" /\ egoCar # << >>) =>
        Ego.currentPose.timestamp_s = timestamp_s

----------------------------------------------------------------------------
(* The interval handed to the minimizer *)

\* C32: in every tick, in every mode, the interval handed to the bounded
\* minimizer after the fallback has been applied has lo < hi; in particular
\* the Emergency fallback (A_MAX_BRAKE, u) is never used with
\* u <= A_MAX_BRAKE.
C32_Original ==
    [][ PlanStep =>
          /\ tick'.lo < tick'.hi
          /\ ModeOf(Ego) = "emergency" => Ego.u > A_MAX_BRAKE
      ]_vars

====
